---- MODULE Spec2Model ----
(***************************************************************************)
(* Model of tach's command dispatcher (src/tach/cli.py): argument parsing, *)
(* the check / clean / init / sync / add / install handlers, error         *)
(* printing, and the boundary validator the dispatcher calls into.         *)
(***************************************************************************)
EXTENDS Integers, Sequences, FiniteSets, TLC

VARIABLES pc, argv, args, project_config, exact, exclude_paths,
          boundary_errors, calls, out, exit_status, uncaught,
          terminal_env, response, imports, policy

vars == <<pc, argv, args, project_config, exact, exclude_paths,
          boundary_errors, calls, out, exit_status, uncaught,
          terminal_env, response, imports, policy>>

(* ---------------------------- bounds ----------------------------------- *)
MaxArgs == 3
MaxErrors == 2
MaxResponseLen == 3
MaxSites == 2

(* ------------------------- Python values -------------------------------- *)
\* None where a string is expected (argparse leaves an unset option None).
NoneStr == "<None>"

\* Optional[list[str]]: None, or a list.
NoneList == [isNone |-> TRUE, items |-> <<>>]

SomeList(l) == [isNone |-> FALSE, items |-> l]

Running == -1

SeqsUpTo(S, n) == UNION {[1..k -> S] : k \in 0..n}

Range(s) == {s[i] : i \in 1..Len(s)}

(* ------------------------- command line --------------------------------- *)
Commands == {"init", "check", "add", "install", "sync", "clean"}

OptionTokens == {"--exact", "--prune", "--force", "-e"}

ValueTokens == {"a", "a,b", "pre-commit"}

Tokens == Commands \cup OptionTokens \cup ValueTokens

\* str.split(",") on the argument values of the model.
Split(s) == IF s = "a,b" THEN <<"a", "b">> ELSE <<s>>

EmptyNamespace ==
    [command |-> NoneStr, exact |-> FALSE, exclude |-> NoneStr,
     prune |-> FALSE, force |-> FALSE, path |-> NoneStr,
     target |-> NoneStr]

\* The flags each sub-parser declares (store_true) and whether it takes
\* -e/--exclude (add_base_arguments).
FlagsOf(cmd) ==
    CASE cmd = "check" -> {"--exact"}
      [] cmd = "sync" -> {"--prune"}
      [] cmd = "clean" -> {"--force"}
      [] OTHER -> {}

TakesExclude(cmd) == cmd \in {"init", "check", "sync"}

SetFlag(ns, tok) ==
    CASE tok = "--exact" -> [ns EXCEPT !.exact = TRUE]
      [] tok = "--prune" -> [ns EXCEPT !.prune = TRUE]
      [] tok = "--force" -> [ns EXCEPT !.force = TRUE]
      [] OTHER -> ns

RejectedArgs == [ok |-> FALSE, ns |-> EmptyNamespace]

\* The sub-parser of ns.command consumes the remaining arguments.
RECURSIVE ParseRest(_, _)
ParseRest(rest, ns) ==
    IF rest = <<>> THEN
        IF /\ ns.command \in {"add", "install"}
           /\ (IF ns.command = "add" THEN ns.path ELSE ns.target) = NoneStr
        THEN RejectedArgs               \* required positional missing
        ELSE [ok |-> TRUE, ns |-> ns]
    ELSE LET tok == Head(rest) IN
        IF tok \in FlagsOf(ns.command) THEN
            ParseRest(Tail(rest), SetFlag(ns, tok))
        ELSE IF tok = "-e" /\ TakesExclude(ns.command) THEN
            IF Len(rest) >= 2 /\ rest[2] \notin OptionTokens
            THEN ParseRest(Tail(Tail(rest)), [ns EXCEPT !.exclude = rest[2]])
            ELSE RejectedArgs           \* expected one argument
        ELSE IF tok \notin OptionTokens /\ ns.command = "add" /\ ns.path = NoneStr THEN
            ParseRest(Tail(rest), [ns EXCEPT !.path = tok])
        ELSE IF tok = "pre-commit" /\ ns.command = "install" /\ ns.target = NoneStr THEN
            ParseRest(Tail(rest), [ns EXCEPT !.target = tok])
        ELSE RejectedArgs               \* unrecognized argument / invalid choice

\* parser.parse_args(args): the sub-command is optional, so an empty list is
\* accepted with command None.
ParseArgs(a) ==
    IF a = <<>> THEN [ok |-> TRUE, ns |-> EmptyNamespace]
    ELSE IF Head(a) \in Commands THEN
        ParseRest(Tail(a), [EmptyNamespace EXCEPT
                               !.command = Head(a),
                               \* install's --path defaults to "."
                               !.path = IF Head(a) = "install" THEN "." ELSE NoneStr])
    ELSE RejectedArgs

(* ------------------------- project policy ------------------------------- *)
\* A TagDependencyRules entry of the configuration.
Rule1 == [tag |-> "low", depends_on |-> <<"high">>]

NoConfig == [loaded |-> FALSE, exact |-> FALSE, exclude |-> NoneList, constraints |-> {}]

\* The configurations parse_project_config can return.
Configs ==
    [loaded : {TRUE}, exact : BOOLEAN, exclude : {NoneList, SomeList(<<"c">>)},
     constraints : SUBSET {Rule1}]

(* ------------------------- boundary errors ------------------------------ *)
\* File paths as code-point sequences: "a", "a/b", "b" (Python compares
\* strings lexicographically, a proper prefix first).
Paths == {<<1>>, <<1, 2>>, <<2>>}

RECURSIVE StrLess(_, _)
StrLess(x, y) ==
    IF y = <<>> THEN FALSE
    ELSE IF x = <<>> THEN TRUE
    ELSE IF Head(x) # Head(y) THEN Head(x) < Head(y)
    ELSE StrLess(Tail(x), Tail(y))

ErrorInfos ==
    { [exception_message |-> "SyntaxError", is_tag_error |-> FALSE],
      [exception_message |-> "", is_tag_error |-> FALSE],
      [exception_message |-> "", is_tag_error |-> TRUE] }

\* 1-based line numbers of the import statements.
Lines == {1, 2}

\* The errors check can return to tach_check.
BoundaryErrors ==
    [file_path : Paths, line_number : {1}, error_info : ErrorInfos]

ErrorLists == SeqsUpTo(BoundaryErrors, MaxErrors)

TerminalEnvironments == {"UNKNOWN", "JETBRAINS", "VSCODE"}

\* detect_environment has not run yet (it reads the environment on its
\* first call and caches the answer).
Undetected == "undetected"

\* What one print call writes: the stream, the message text and, for an
\* error line, the location shown and the link target (line 0 = no line).
Printed(stream, text) ==
    [stream |-> stream, text |-> text, file_path |-> <<>>, shown_line |-> 0,
     link_scheme |-> "", link_line |-> 0]

build_error_message(error, env) ==
    [stream |-> "stderr",
     text |-> IF error.error_info.exception_message # ""
                  THEN error.error_info.exception_message
              ELSE IF ~error.error_info.is_tag_error THEN "Unexpected error"
              ELSE "Cannot import",
     file_path |-> error.file_path,
     shown_line |-> IF error.line_number # 0 /\ env # "UNKNOWN"
                        THEN error.line_number ELSE 0,
     link_scheme |-> IF env = "VSCODE" THEN "vscode://file/" ELSE "file://",
     link_line |-> IF env = "UNKNOWN" THEN 0 ELSE error.line_number]

\* Variant: an element is placed before the elements with an equal key.
RECURSIVE InsertByPathBeforeEqual(_, _)
InsertByPathBeforeEqual(sorted, e) ==
    IF sorted = <<>> THEN <<e>>
    ELSE IF ~StrLess(Head(sorted).file_path, e.file_path) THEN <<e>> \o sorted
    ELSE <<Head(sorted)>> \o InsertByPathBeforeEqual(Tail(sorted), e)

\* sorted(list, key=file_path): each element is inserted after the elements
\* already placed whose key is not greater than its own.
RECURSIVE InsertByPath(_, _)
InsertByPath(sorted, e) ==
    IF sorted = <<>> THEN <<e>>
    ELSE IF StrLess(e.file_path, Head(sorted).file_path) THEN <<e>> \o sorted
    ELSE <<Head(sorted)>> \o InsertByPath(Tail(sorted), e)

RECURSIVE SortedByPath(_)
SortedByPath(l) ==
    IF l = <<>> THEN <<>>
    ELSE InsertByPath(SortedByPath(SubSeq(l, 1, Len(l) - 1)), l[Len(l)])

\* The lines print_errors writes to stderr, in order.
print_errors(error_list, env) ==
    LET sorted_results == SortedByPath(error_list)
    IN [i \in 1..Len(sorted_results) |-> build_error_message(sorted_results[i], env)]

(* ------------------------- boundary validator --------------------------- *)
Packages == {"core", "api"}

Tags == {"low", "high"}

\* The package a source file belongs to.
PackageOf(file_path) == IF file_path = <<2>> THEN "api" ELSE "core"

\* One observed import: where it is written and what it resolves to.
ImportSites ==
    [file_path : Paths, line_number : Lines,
     target : Packages \cup {"external", "unresolved"}]

NoPolicy == [tags |-> [p \in Packages |-> {}], rules |-> [t \in Tags |-> {}]]

\* Package tags (one or more per package) and, per tag, the tags it may
\* depend on.
Policies ==
    [tags : [Packages -> (SUBSET Tags) \ {{}}], rules : [Tags -> SUBSET Tags]]

\* "is tag A allowed to depend on tag B" (self-dependency always allowed).
TagAllowed(pol, a, b) == a = b \/ b \in pol.rules[a]

EdgeAllowed(pol, src, dst) ==
    \E s \in pol.tags[src], t \in pol.tags[dst] : TagAllowed(pol, s, t)

InvalidTags(pol, src, dst) ==
    {t \in pol.tags[dst] : \A s \in pol.tags[src] : ~TagAllowed(pol, s, t)}

\* Edges to in-project packages; self-imports are dropped.
IsEdgeSite(site, src, dst) ==
    PackageOf(site.file_path) = src /\ site.target = dst /\ src # dst

EdgeSites(sites, src, dst) == SelectSeq(sites, LAMBDA st : IsEdgeSite(st, src, dst))

StructuralError(site) ==
    [file_path |-> site.file_path, line_number |-> site.line_number,
     import_mod_path |-> site.target,
     error_info |-> [exception_message |-> "unresolved import", is_tag_error |-> FALSE,
                     source_tags |-> {}, invalid_tags |-> {}]]

TagError(pol, site, src, dst) ==
    [file_path |-> site.file_path, line_number |-> site.line_number,
     import_mod_path |-> dst,
     error_info |-> [exception_message |-> "", is_tag_error |-> TRUE,
                     source_tags |-> pol.tags[src],
                     invalid_tags |-> InvalidTags(pol, src, dst)]]

\* Variant: a violating edge is reported once, at its first import site.
EdgeErrorsOncePerEdge(pol, sites, src, dst) ==
    IF EdgeAllowed(pol, src, dst) THEN <<>>
    ELSE LET es == EdgeSites(sites, src, dst)
         IN IF es = <<>> THEN <<>> ELSE <<TagError(pol, es[1], src, dst)>>

\* The errors of one edge: none if the edge is allowed, else one per site.
EdgeErrors(pol, sites, src, dst) ==
    IF EdgeAllowed(pol, src, dst) THEN <<>>
    ELSE LET es == EdgeSites(sites, src, dst)
         IN [i \in 1..Len(es) |-> TagError(pol, es[i], src, dst)]

EdgeOrder == <<<<"core", "api">>, <<"api", "core">>>>

\* check(root, policy, ...): unresolved targets are reported as structural
\* errors, then every edge is validated.
check(pol, sites) ==
    LET unresolved == SelectSeq(sites, LAMBDA st : st.target = "unresolved")
    IN [i \in 1..Len(unresolved) |-> StructuralError(unresolved[i])]
       \o EdgeErrors(pol, sites, EdgeOrder[1][1], EdgeOrder[1][2])
       \o EdgeErrors(pol, sites, EdgeOrder[2][1], EdgeOrder[2][2])

(* ------------------------- call log ------------------------------------- *)
\* One entry per call into a collaborator module, with what was passed.
CallRec(fn) ==
    [fn |-> fn, root |-> "", cfg |-> NoConfig, excl |-> NoneList, raised |-> FALSE,
     errors |-> <<>>, extras |-> <<>>, pruned |-> NoConfig]

Init ==
    /\ pc = "main"
    /\ argv \in SeqsUpTo(Tokens, MaxArgs)
    /\ terminal_env = Undetected
    /\ args = EmptyNamespace
    /\ project_config = NoConfig
    /\ exact = FALSE
    /\ exclude_paths = NoneList
    /\ boundary_errors = <<>>
    /\ calls = <<>>
    /\ out = <<>>
    /\ exit_status = Running
    /\ uncaught = NoneStr
    /\ response = <<>>
    /\ imports = <<>>
    /\ policy = NoPolicy

\* Variant: the handler reports the exception but exits with status 0.
HandledExceptionExitZero(returned, call) ==
    /\ calls' = calls \o returned \o <<[call EXCEPT !.raised = TRUE]>>
    /\ out' = Append(out, Printed("stdout", "str(e)"))
    /\ exit_status' = 0
    /\ pc' = "done"

\* An exception caught by a handler, raised by call after the calls in
\* returned came back: message printed once, exit status 1.
HandledException(returned, call) ==
    /\ calls' = calls \o returned \o <<[call EXCEPT !.raised = TRUE]>>
    /\ out' = Append(out, Printed("stdout", "str(e)"))
    /\ exit_status' = 1
    /\ pc' = "done"

\* parse_arguments, called first by main.
ParseArguments ==
    /\ pc = "main"
    /\ LET parsed == ParseArgs(argv) IN
       IF ~parsed.ok THEN
           \* argparse reports the error and raises SystemExit(2)
           /\ pc' = "done" /\ exit_status' = 2
           /\ UNCHANGED <<args, calls, uncaught>>
       ELSE IF argv = <<>> THEN
           \* args[0] on an empty list
           /\ pc' = "done" /\ exit_status' = 1 /\ uncaught' = "IndexError"
           /\ UNCHANGED <<args, calls>>
       ELSE IF argv[1] \notin {"init", "add", "clean", "sync"} THEN
           /\ calls' = Append(calls, CallRec("validate_project_config_path"))
           /\ args' = parsed.ns
           /\ pc' = "dispatch"
           /\ UNCHANGED <<exit_status, uncaught>>
       ELSE
           /\ args' = parsed.ns
           /\ pc' = "dispatch"
           /\ UNCHANGED <<calls, exit_status, uncaught>>
    /\ UNCHANGED <<argv, project_config, exact, exclude_paths, boundary_errors,
                   out, terminal_env, response, imports, policy>>

\* main after parse_arguments: the command selects the handler.
MainDispatch ==
    /\ pc = "dispatch"
    /\ IF args.command = "add" THEN
           /\ pc' = "tach_add"
           /\ UNCHANGED <<exclude_paths, exact, calls, out, exit_status>>
       ELSE
           /\ exclude_paths' =
                  IF args.exclude # NoneStr /\ args.exclude # ""
                  THEN SomeList(Split(args.exclude)) ELSE NoneList
           /\ IF args.command \in {"init", "sync", "clean", "install"} THEN
                  /\ pc' = "tach_" \o args.command
                  /\ UNCHANGED <<exact, calls, out, exit_status>>
              ELSE IF args.command = "check" THEN
                  /\ calls' = Append(calls, CallRec("start_spinner"))
                  /\ exact' = args.exact
                  /\ pc' = "tach_check"
                  /\ UNCHANGED <<out, exit_status>>
              ELSE
                  /\ out' = out \o <<Printed("stdout", "Unrecognized command"),
                                     Printed("stdout", "usage")>>
                  /\ exit_status' = 1
                  /\ pc' = "done"
                  /\ UNCHANGED <<exact, calls>>
    /\ UNCHANGED <<argv, args, project_config, boundary_errors, uncaught,
                   terminal_env, response, imports, policy>>

(* ------------------------- tach_check ----------------------------------- *)
\* The merge of the command line's exclude list with the configuration's.
MergeExclude(cli, cfg) ==
    IF ~cli.isNone /\ ~cfg.isNone
    THEN SomeList(cli.items \o cfg.items)      \* exclude_paths.extend(...)
    ELSE cfg                                   \* exclude_paths = project_config.exclude

\* Variant: the configuration's flag replaces the command line's.
EffectiveExactConfigOnly(flag, cfg) == cfg.exact

\* Exact mode: the flag passed in, switched on by the configuration.
EffectiveExact(flag, cfg) ==
    IF flag = FALSE /\ cfg.exact = TRUE THEN TRUE ELSE flag

\* Variant: a configuration error is reported but the check goes on.
TachCheckLoadContinues ==
    /\ pc = "tach_check"
    /\ \/ /\ calls' = Append(calls, [CallRec("parse_project_config") EXCEPT !.raised = TRUE])
          /\ out' = Append(out, Printed("stdout", "str(e)"))
          /\ pc' = "check"
          /\ UNCHANGED <<project_config, exact, exclude_paths, exit_status>>
       \/ \E cfg \in Configs :
          /\ calls' = Append(calls, [CallRec("parse_project_config") EXCEPT !.cfg = cfg])
          /\ project_config' = cfg
          /\ exact' = IF exact = FALSE /\ cfg.exact = TRUE THEN TRUE ELSE exact
          /\ exclude_paths' =
                 IF ~exclude_paths.isNone /\ ~cfg.exclude.isNone
                 THEN SomeList(exclude_paths.items \o cfg.exclude.items)
                 ELSE cfg.exclude
          /\ pc' = "check"
          /\ UNCHANGED <<out, exit_status>>
    /\ UNCHANGED <<argv, args, boundary_errors, uncaught, terminal_env,
                   response, imports, policy>>

\* tach_check up to the call of check: load the configuration, settle exact
\* and the exclude list.
TachCheckLoad ==
    /\ pc = "tach_check"
    /\ \/ /\ HandledException(<<>>, CallRec("parse_project_config"))
          /\ UNCHANGED <<project_config, exact, exclude_paths>>
       \/ \E cfg \in Configs :
          /\ calls' = Append(calls, [CallRec("parse_project_config") EXCEPT !.cfg = cfg])
          /\ project_config' = cfg
          /\ exact' = EffectiveExact(exact, cfg)
          /\ exclude_paths' = MergeExclude(exclude_paths, cfg.exclude)
          /\ pc' = "check"
          /\ UNCHANGED <<out, exit_status>>
    /\ UNCHANGED <<argv, args, boundary_errors, uncaught, terminal_env,
                   response, imports, policy>>

CheckCall ==
    [CallRec("check") EXCEPT
        !.root = ".", !.cfg = project_config, !.excl = exclude_paths]

\* Variant: the prune step runs in exact mode even when check found errors.
NeedsPruneIgnoringErrors(errs, ex) == ex

\* Whether tach_check goes on to the prune step after check returned errs.
NeedsPrune(errs, ex) == errs = <<>> /\ ex

\* boundary_errors = check(".", project_config, exclude_paths=..., ...)
TachCheckRun ==
    /\ pc = "check"
    /\ \/ /\ HandledException(<<>>, CheckCall)
          /\ UNCHANGED boundary_errors
       \/ \E errs \in ErrorLists :
          /\ calls' = Append(calls, [CheckCall EXCEPT !.errors = errs])
          /\ boundary_errors' = errs
          /\ pc' = IF NeedsPrune(errs, exact) THEN "prune" ELSE "report"
          /\ UNCHANGED <<out, exit_status>>
    /\ UNCHANGED <<argv, args, project_config, exact, exclude_paths, uncaught,
                   terminal_env, response, imports, policy>>

\* Variant: the prune step asks the configuration for a fresh exclude list.
PruneCallFreshExclude ==
    [CallRec("prune_dependency_constraints") EXCEPT
        !.root = ".", !.cfg = project_config, !.excl = project_config.exclude]

PruneCall ==
    [CallRec("prune_dependency_constraints") EXCEPT
        !.root = ".", !.cfg = project_config, !.excl = exclude_paths]

ExtraConstraintLists == SeqsUpTo({Rule1}, 1)

print_extra_constraints(constraints) ==
    Printed("stdout", "Found unused dependencies")

\* The exact-mode step: prune, then compare the pruned policy with the
\* loaded one.
TachCheckPrune ==
    /\ pc = "prune"
    /\ \/ HandledException(<<>>, PruneCall)
       \/ \E pruned \in Configs :
            LET pcall == [PruneCall EXCEPT !.pruned = pruned]
                fcall == [CallRec("find_extra_constraints") EXCEPT
                             !.cfg = project_config, !.pruned = pruned]
            IN \/ HandledException(<<pcall>>, fcall)
               \/ \E extra_constraints \in ExtraConstraintLists :
                  /\ calls' = calls \o <<pcall, [fcall EXCEPT !.extras = extra_constraints]>>
                  /\ IF extra_constraints # <<>> THEN
                         /\ out' = Append(out, print_extra_constraints(extra_constraints))
                         /\ exit_status' = 1
                         /\ pc' = "done"
                     ELSE
                         /\ pc' = "report"
                         /\ UNCHANGED <<out, exit_status>>
    /\ UNCHANGED <<argv, args, project_config, exact, exclude_paths,
                   boundary_errors, uncaught, terminal_env, response, imports, policy>>

SuccessMessage == "All package dependencies validated!"

\* The end of tach_check, after the try block.
TachCheckReport ==
    /\ pc = "report"
    /\ IF boundary_errors # <<>> THEN
           \E env \in TerminalEnvironments :
               /\ terminal_env' = env
               /\ out' = out \o print_errors(boundary_errors, env)
               /\ exit_status' = 1
       ELSE
           /\ out' = Append(out, Printed("stdout", SuccessMessage))
           /\ exit_status' = 0
           /\ UNCHANGED terminal_env
    /\ pc' = "done"
    /\ UNCHANGED <<argv, args, project_config, exact, exclude_paths,
                   boundary_errors, calls, uncaught, response, imports, policy>>

(* ------------------------- tach_clean ----------------------------------- *)
Chars == {"y", "Y", "e", "E", "s", "S", "n", " "}

\* What the user can type at the prompt.
Responses == SeqsUpTo(Chars, MaxResponseLen)

LowerChar(c) ==
    CASE c = "Y" -> "y"
      [] c = "E" -> "e"
      [] c = "S" -> "s"
      [] OTHER -> c

\* str.lower()
Lower(str) == [i \in 1..Len(str) |-> LowerChar(str[i])]

\* Variant: the comparison without lower().
ConfirmsCaseSensitive(resp) == resp \in {<<"y">>, <<"y", "e", "s">>}

\* response.lower() in ["y", "yes"]
Confirms(resp) == Lower(resp) \in {<<"y">>, <<"y", "e", "s">>}

CleanWarnings ==
    <<Printed("stdout", "This will DELETE all existing configuration"),
      Printed("stdout", "Deletion will occur for project with root")>>

\* What tach_clean does once confirmed is known; main then returns.
CleanOutcome(done, confirmed) ==
    /\ IF confirmed THEN
           /\ calls' = calls \o done \o <<CallRec("clean_project")>>
           /\ out' = out \o CleanWarnings
       ELSE
           /\ calls' = calls \o done
           /\ out' = out \o CleanWarnings
                        \o <<Printed("stdout", "Not deleting configuration.")>>
    /\ exit_status' = 0
    /\ UNCHANGED uncaught

TachClean ==
    /\ pc = "tach_clean"
    /\ LET root == CallRec("find_project_config_root") IN
       IF args.force THEN
           /\ CleanOutcome(<<root>>, TRUE)
           /\ UNCHANGED response
       ELSE
           \/ \E r \in Responses :
                /\ response' = r
                /\ CleanOutcome(<<root, CallRec("input")>>, Confirms(r))
           \/ \* end of input at the prompt: input() raises EOFError
              /\ calls' = calls \o <<root, [CallRec("input") EXCEPT !.raised = TRUE]>>
              /\ out' = out \o CleanWarnings
              /\ uncaught' = "EOFError"
              /\ exit_status' = 1
              /\ UNCHANGED response
    /\ pc' = "done"
    /\ UNCHANGED <<argv, args, project_config, exact, exclude_paths,
                   boundary_errors, terminal_env, imports, policy>>

(* ------------------- tach_init, tach_sync, tach_add, tach_install ------- *)
WarningLists == {<<>>, <<Printed("stdout", "warning")>>}

\* A handler that makes one call and reports success or the exception.
SimpleHandler(call, success, hasWarnings) ==
    \/ HandledException(<<>>, call)
    \/ \E warnings \in (IF hasWarnings THEN WarningLists ELSE {<<>>}) :
         /\ calls' = Append(calls, call)
         /\ out' = out \o warnings \o <<Printed("stdout", success)>>
         /\ exit_status' = 0
         /\ pc' = "done"

TachInit ==
    /\ pc = "tach_init"
    /\ SimpleHandler([CallRec("init_project") EXCEPT !.excl = exclude_paths],
                     "Initialized", TRUE)
    /\ UNCHANGED <<argv, args, project_config, exact, exclude_paths,
                   boundary_errors, uncaught, terminal_env, response, imports, policy>>

TachSync ==
    /\ pc = "tach_sync"
    /\ SimpleHandler([CallRec("sync_project") EXCEPT !.excl = exclude_paths],
                     "Synced dependencies.", FALSE)
    /\ UNCHANGED <<argv, args, project_config, exact, exclude_paths,
                   boundary_errors, uncaught, terminal_env, response, imports, policy>>

TachAdd ==
    /\ pc = "tach_add"
    /\ LET paths == Range(Split(args.path)) IN
       SimpleHandler([CallRec("add_packages") EXCEPT !.excl = SomeList(Split(args.path))],
                     IF Cardinality(paths) > 1 THEN "Packages added." ELSE "Package added.",
                     TRUE)
    /\ UNCHANGED <<argv, args, project_config, exact, exclude_paths,
                   boundary_errors, uncaught, terminal_env, response, imports, policy>>

TachInstall ==
    /\ pc = "tach_install"
    /\ \/ HandledException(<<>>, CallRec("install_pre_commit"))
       \/ \E installed \in BOOLEAN :
            /\ calls' = Append(calls, CallRec("install_pre_commit"))
            /\ out' = Append(out, Printed("stdout",
                          IF installed THEN "Pre-commit hook installed"
                          ELSE "Pre-commit hook could not be installed"))
            /\ exit_status' = IF installed THEN 0 ELSE 1
            /\ pc' = "done"
    /\ UNCHANGED <<argv, args, project_config, exact, exclude_paths,
                   boundary_errors, uncaught, terminal_env, response, imports, policy>>

Next ==
    \/ ParseArguments
    \/ MainDispatch
    \/ TachCheckLoad
    \/ TachCheckRun
    \/ TachCheckPrune
    \/ TachCheckReport
    \/ TachClean
    \/ TachInit
    \/ TachSync
    \/ TachAdd
    \/ TachInstall

Spec == Init /\ [][Next]_vars

(* ------------------ the validator on its own ---------------------------- *)
InitCheck ==
    /\ pc = "engine"
    /\ policy \in Policies
    /\ imports \in SeqsUpTo(ImportSites, MaxSites)
    /\ argv = <<>>
    /\ terminal_env = Undetected
    /\ args = EmptyNamespace
    /\ project_config = NoConfig
    /\ exact = FALSE
    /\ exclude_paths = NoneList
    /\ boundary_errors = <<>>
    /\ calls = <<>>
    /\ out = <<>>
    /\ exit_status = Running
    /\ uncaught = NoneStr
    /\ response = <<>>

EngineCheck ==
    /\ pc = "engine"
    /\ boundary_errors' = check(policy, imports)
    /\ pc' = "engine_done"
    /\ UNCHANGED <<argv, args, project_config, exact, exclude_paths, calls, out,
                   exit_status, uncaught, terminal_env, response, imports, policy>>

NextCheck == EngineCheck

SpecCheck == InitCheck /\ [][NextCheck]_vars

(* ========================= properties =================================== *)
CallIndices(fn) == {i \in 1..Len(calls) : calls[i].fn = fn}

Returned(fn) == {i \in CallIndices(fn) : ~calls[i].raised}

PruneStepCalls ==
    CallIndices("prune_dependency_constraints") \cup CallIndices("find_extra_constraints")

\* C1: the prune step (prune_dependency_constraints, find_extra_constraints)
\* is only ever called after check has returned an empty error list with
\* exact mode in effect; once check has returned at least one error neither
\* is called, whatever the exact setting.
PruneOnlyAfterCleanCheck ==
    /\ \A i \in PruneStepCalls :
         /\ exact
         /\ \E j \in Returned("check") : j < i /\ calls[j].errors = <<>>
    /\ (\E j \in Returned("check") : calls[j].errors # <<>>) => PruneStepCalls = {}

PruneRanAfterCleanCheck ==
    /\ pc = "done"
    /\ exact
    /\ \E j \in Returned("check"), i \in Returned("prune_dependency_constraints") :
         j < i /\ calls[j].errors = <<>>

CheckFinished == pc = "done" /\ args.command = "check"

AnyRaised == \E i \in 1..Len(calls) : calls[i].raised

SuccessPrinted == \E i \in 1..Len(out) : out[i].text = SuccessMessage

CleanRun ==
    /\ ~AnyRaised
    /\ \E j \in Returned("check") : calls[j].errors = <<>>
    /\ \/ ~exact
       \/ \E k \in Returned("find_extra_constraints") : calls[k].extras = <<>>

\* C2: tach_check always ends the process; the exit status is 0, with the
\* success message printed, exactly when nothing raised, check returned no
\* error and (exact mode is off or no extra constraint was found); in every
\* other case the status is 1 and the success message is not printed.
CheckExitStatus ==
    CheckFinished =>
        /\ exit_status \in {0, 1}
        /\ uncaught = NoneStr
        /\ exit_status = 0 <=> CleanRun
        /\ SuccessPrinted <=> exit_status = 0

CheckFailedOnExtraConstraint ==
    /\ CheckFinished
    /\ exit_status = 1
    /\ \E k \in Returned("find_extra_constraints") : calls[k].extras # <<>>

ConfigErrorRaised ==
    \E i \in CallIndices("parse_project_config") : calls[i].raised

\* C3: when parse_project_config raises in tach_check, neither check nor
\* prune_dependency_constraints is ever called, the error message is printed
\* exactly once, and the process exits with status 1.
ConfigErrorIsFatal ==
    ConfigErrorRaised =>
        /\ CallIndices("check") = {}
        /\ CallIndices("prune_dependency_constraints") = {}
        /\ out = <<Printed("stdout", "str(e)")>>
        /\ pc = "done"
        /\ exit_status = 1

ConfigErrorSeen == ConfigErrorRaised /\ pc = "done"

Perms(n) == {p \in [1..n -> 1..n] : \A i, j \in 1..n : p[i] = p[j] => i = j}

ErrorsPrinted == pc = "done" /\ boundary_errors # <<>>

ReportedFor(src, dst) ==
    {i \in 1..Len(boundary_errors) :
        /\ boundary_errors[i].error_info.is_tag_error
        /\ PackageOf(boundary_errors[i].file_path) = src
        /\ boundary_errors[i].import_mod_path = dst}

SitesAt(src, dst, f, l) ==
    {i \in 1..Len(imports) :
        /\ IsEdgeSite(imports[i], src, dst)
        /\ imports[i].file_path = f /\ imports[i].line_number = l}

\* C5: for every edge A -> B between different in-project packages, check
\* reports no policy violation when some (sourceTag, targetTag) pair is
\* allowed (a tag may always depend on itself), and otherwise exactly one
\* BoundaryError per import site of the edge, with source_tags = A's tags.
ViolationsPerImportSite ==
    pc = "engine_done" =>
        \A a, b \in Packages : a # b =>
            IF \E s \in policy.tags[a], t \in policy.tags[b] :
                   s = t \/ t \in policy.rules[s]
            THEN ReportedFor(a, b) = {}
            ELSE /\ \A i \in ReportedFor(a, b) :
                      boundary_errors[i].error_info.source_tags = policy.tags[a]
                 /\ \A f \in Paths, l \in Lines :
                      Cardinality({i \in ReportedFor(a, b) :
                                      /\ boundary_errors[i].file_path = f
                                      /\ boundary_errors[i].line_number = l})
                          = Cardinality(SitesAt(a, b, f, l))

ViolatingEdgeWithTwoSites ==
    /\ pc = "engine_done"
    /\ \E a, b \in Packages :
         /\ a # b
         /\ Cardinality(ReportedFor(a, b)) = 2
         /\ Len(EdgeSites(imports, a, b)) = 2

\* Every spelling of "y" and "yes" in upper and lower case.
YesSpellings ==
    {<<a>> : a \in {"y", "Y"}}
        \cup {<<a, b, c>> : <<a, b, c>> \in {"y", "Y"} \X {"e", "E"} \X {"s", "S"}}

CleanFinished == pc = "done" /\ args.command = "clean"

\* C6: tach_clean calls clean_project exactly when force is set or the
\* response is "y" or "yes" in any letter case; with force no prompt is
\* issued, and any other response (an empty one too) never deletes.
CleanOnlyOnConfirmation ==
    CleanFinished =>
        /\ CallIndices("clean_project") # {}
               <=> (args.force \/ (Returned("input") # {} /\ response \in YesSpellings))
        /\ args.force => CallIndices("input") = {}

CleanConfirmedInUpperCase ==
    /\ CleanFinished
    /\ ~args.force
    /\ response = <<"Y", "E", "S">>
    /\ CallIndices("clean_project") # {}

\* C7: the prune step gets the root, the loaded policy and the exclude list
\* that check got; the policy is loaded once; the extra constraints come
\* from comparing the pruned policy with the policy that was loaded.
PruneReusesCheckInputs ==
    /\ Cardinality(CallIndices("parse_project_config")) <= 1
    /\ \A i \in CallIndices("prune_dependency_constraints") :
         /\ Cardinality(CallIndices("parse_project_config")) = 1
         /\ \E j \in Returned("check") :
              /\ j < i
              /\ calls[i].root = calls[j].root
              /\ calls[i].cfg = calls[j].cfg
              /\ calls[i].excl = calls[j].excl
         /\ \A l \in Returned("parse_project_config") : calls[i].cfg = calls[l].cfg
    /\ \A k \in CallIndices("find_extra_constraints") :
         /\ \A l \in Returned("parse_project_config") : calls[k].cfg = calls[l].cfg
         /\ \E i \in Returned("prune_dependency_constraints") :
              i < k /\ calls[k].pruned = calls[i].pruned

PrunedWithMergedExclude ==
    \E i \in Returned("prune_dependency_constraints"),
       k \in Returned("find_extra_constraints") :
         /\ ~args.exclude = NoneStr
         /\ Len(calls[i].excl.items) >= 2
         /\ calls[i].pruned # calls[k].cfg

\* C8: exact mode is in effect exactly when --exact was given or the
\* configuration's exact flag is true.
ExactIffCommandLineOrConfig ==
    project_config.loaded =>
        (exact <=> ("--exact" \in Range(argv) \/ project_config.exact))

ExactFromConfigOnly ==
    /\ project_config.loaded
    /\ exact
    /\ "--exact" \notin Range(argv)

CommandLinePaths ==
    IF args.exclude = NoneStr THEN {} ELSE Range(Split(args.exclude))

\* C9: the exclude list passed to check and to prune_dependency_constraints
\* contains every path given with --exclude and every path of the
\* configuration's exclude list.
ExcludeIsUnion ==
    \A i \in CallIndices("check") \cup CallIndices("prune_dependency_constraints") :
        CommandLinePaths \cup Range(calls[i].cfg.exclude.items)
            \subseteq Range(calls[i].excl.items)

HandlerPcs == {"tach_init", "tach_check", "tach_add", "tach_install", "tach_sync", "tach_clean"}

\* C10: for every accepted argument list main validates the configuration
\* path exactly when the first argument is not init, add, clean or sync,
\* then runs the one handler of the parsed command or, with no command (an
\* empty list too), prints 'Unrecognized command' and exits with status 1;
\* it never ends in an uncaught exception.
MainDefinedOutcome ==
    /\ pc \in HandlerPcs => pc = "tach_" \o args.command
    /\ (pc = "done" /\ ParseArgs(argv).ok) =>
         /\ uncaught = NoneStr
         /\ argv # <<>> =>
              (CallIndices("validate_project_config_path") # {}
                  <=> argv[1] \notin {"init", "add", "clean", "sync"})
         /\ ParseArgs(argv).ns.command = NoneStr =>
              /\ exit_status = 1
              /\ \E i \in 1..Len(out) : out[i].text = "Unrecognized command"

====
